---- MODULE Spec2Model ----
(***************************************************************************)
(* Model of package setmultimap (relengxing/go-multimap): a multimap held  *)
(* in Go's native map, m map[K]Set[V] with Set[V] = map[V]struct{}.        *)
(*                                                                         *)
(* The Go map m.m is a TLA+ function whose DOMAIN is the set of stored     *)
(* keys; a Set[V] is a TLA+ set.  Every method of MultiMap is an operator  *)
(* on that function (the value the method leaves in m.m, or the set of     *)
(* results it can return: the iteration order of a Go map is unspecified,  *)
(* so a method that ranges over a map has one result per order), and an    *)
(* action Call<Method> that applies it to the multimap.  ret holds every   *)
(* result the last call can have returned, so that a property of the       *)
(* result is a property of all of them.                                    *)
(*                                                                         *)
(* K and V are instantiated with types whose == is reflexive (integers).   *)
(***************************************************************************)
EXTENDS Integers, Sequences, FiniteSets, TLC

\* ---- bounds of the model ----
NumKeys == 2        \* keys are 1..NumKeys
NumVals == 2        \* values are 1..NumVals
MaxLen  == 2        \* PutAll is handed every slice of at most MaxLen values

Key   == 1..NumKeys
Value == 1..NumVals

\* the zero value make([]T, n) fills a fresh slice with
Zero == 0

\* the slice of the scenario PutAll("a", [1,1,2])
Scenario == <<1, 1, 2>>

\* the inputs of PutAll: every slice of at most MaxLen values, and Scenario
Slices == UNION {[1..n -> Value] : n \in 0..MaxLen} \cup {Scenario}

VARIABLES
    m,      \* MultiMap.m : map[K]Set[V]
    op,     \* the last method called, with its arguments
    ret,    \* the results that call can have returned ({} for a method without results)
    pre     \* m.m as it was when the last call started

vars == <<m, op, ret, pre>>

\* ---- Go's map primitives ----

\* make(map[K]Set[V])
EmptyMap == [k \in {} |-> {}]

\* set, found := mm[k] : a missing key yields the nil Set and found = false
Lookup(mm, k) ==
    IF k \in DOMAIN mm THEN [set |-> mm[k], found |-> TRUE]
                       ELSE [set |-> {},    found |-> FALSE]

\* delete(mm, k) : no-op when k is missing
Delete(mm, k) == [x \in (DOMAIN mm) \ {k} |-> mm[x]]

\* mm[k] = s
Store(mm, k, s) == [x \in (DOMAIN mm) \cup {k} |-> IF x = k THEN s ELSE mm[x]]

\* make([]T, n)
MakeSlice(n) == [i \in 1..n |-> Zero]

\* the orders in which `for x := range s` can visit the elements of s
Perms(s) ==
    {f \in [1..Cardinality(s) -> s] :
        \A i, j \in 1..Cardinality(s) : i # j => f[i] # f[j]}

\* slice[count] = x; count++ for every x of items, count starting at 0;
\* an index past the end of the slice panics
Fill(slice, items) ==
    IF Len(items) > Len(slice)
    THEN "panic: index out of range"
    ELSE [i \in 1..Len(slice) |-> IF i <= Len(items) THEN items[i] ELSE slice[i]]

\* ---- the methods of MultiMap ----

\* New
New == EmptyMap

\* Put with `m.m[key] = set` forgotten for a new key
PutForgetsStore(mm, key, value) ==
    LET l == Lookup(mm, key) IN
    IF l.found
    THEN [mm EXCEPT ![key] = l.set \cup {value}]
    ELSE mm

\* Put that makes a fresh set on every call
PutOverwrites(mm, key, value) == Store(mm, key, {value})

\* Put: the map Put(key, value) leaves in m.m
Put(mm, key, value) ==
    LET l == Lookup(mm, key) IN
    IF l.found
    THEN [mm EXCEPT ![key] = l.set \cup {value}]
    ELSE Store(mm, key, {value})

\* PutAll that breaks out of the loop at the first value already stored
RECURSIVE PutAllStopsEarly(_, _, _)
PutAllStopsEarly(mm, key, values) ==
    IF values = <<>> THEN mm
    ELSE IF Head(values) \in Lookup(mm, key).set THEN mm
    ELSE PutAllStopsEarly(Put(mm, key, Head(values)), key, Tail(values))

\* PutAll: Put for each element of values, in order
RECURSIVE PutAll(_, _, _)
PutAll(mm, key, values) ==
    IF values = <<>> THEN mm
    ELSE PutAll(Put(mm, key, Head(values)), key, Tail(values))

\* Contains
Contains(mm, key, value) ==
    LET l == Lookup(mm, key) IN
    IF value \in l.set THEN l.found ELSE FALSE

\* ContainsKey
ContainsKey(mm, key) == Lookup(mm, key).found

\* ContainsValue
ContainsValue(mm, value) == \E k \in DOMAIN mm : value \in mm[k]

\* Remove without the deletion of the emptied key
RemoveKeepsKey(mm, key, value) ==
    LET l == Lookup(mm, key)
    IN  IF l.found THEN [mm EXCEPT ![key] = l.set \ {value}] ELSE mm

\* Remove that tests the length of the set before it deletes the value
RemoveTestsFirst(mm, key, value) ==
    LET l  == Lookup(mm, key)
        m1 == IF l.found THEN [mm EXCEPT ![key] = l.set \ {value}] ELSE mm
    IN  IF Cardinality(l.set) <= 1 THEN Delete(m1, key) ELSE m1

\* Remove
Remove(mm, key, value) ==
    LET l  == Lookup(mm, key)
        m1 == IF l.found THEN [mm EXCEPT ![key] = l.set \ {value}] ELSE mm
    IN  IF Cardinality(Lookup(m1, key).set) = 0 THEN Delete(m1, key) ELSE m1

\* RemoveAll that empties the set of the key and keeps the key
RemoveAllKeepsKey(mm, key) ==
    IF key \in DOMAIN mm THEN [mm EXCEPT ![key] = {}] ELSE mm

\* RemoveAll
RemoveAll(mm, key) == Delete(mm, key)

\* Size: the sum of len(set) over the sets of m.m
RECURSIVE SumLen(_, _)
SumLen(mm, ks) ==
    IF ks = {} THEN 0
    ELSE LET k == CHOOSE x \in ks : TRUE
         IN  Cardinality(mm[k]) + SumLen(mm, ks \ {k})

Size(mm) == SumLen(mm, DOMAIN mm)

\* Empty
Empty(mm) == Size(mm) = 0

\* Clear that empties every set and keeps the keys
ClearKeepsKeys(mm) == [k \in DOMAIN mm |-> {}]

\* Clear
Clear(mm) == EmptyMap

\* Get that appends to the slice it made with len(set) elements
GetAppends(mm, key) ==
    LET l == Lookup(mm, key) IN
    {[values |-> MakeSlice(Cardinality(l.set)) \o vo, found |-> l.found] :
        vo \in Perms(l.set)}

\* Get: the (values, found) pairs Get(key) can return
Get(mm, key) ==
    LET l == Lookup(mm, key) IN
    {[values |-> Fill(MakeSlice(Cardinality(l.set)), vo), found |-> l.found] :
        vo \in Perms(l.set)}

\* for key, set := range m.m { for value := range set { ... } } :
\* the sequences of (key, value) visits the nested loops can make
RECURSIVE RangeOver(_, _)
RangeOver(mm, ks) ==
    IF ks = {} THEN {<<>>}
    ELSE UNION {
            LET rests == RangeOver(mm, ks \ {k})
                runs  == {[i \in 1..Len(vo) |-> [Key |-> k, Value |-> vo[i]]] :
                            vo \in Perms(mm[k])}
            IN  {run \o rest : run \in runs, rest \in rests} :
            k \in ks}

\* Keys without the inner loop: each key stored once
KeysOncePerKey(mm) ==
    {Fill(MakeSlice(Size(mm)), ko) : ko \in Perms(DOMAIN mm)}

\* for key, value := range m.m { for range value { ... } } with the keys
\* visited in the order ko: each key once per value under it
RECURSIVE KeyRuns(_, _)
KeyRuns(mm, ko) ==
    IF ko = <<>> THEN <<>>
    ELSE [i \in 1..Cardinality(mm[Head(ko)]) |-> Head(ko)] \o KeyRuns(mm, Tail(ko))

\* Keys
Keys(mm) ==
    LET keys == MakeSlice(Size(mm)) IN
    {Fill(keys, KeyRuns(mm, ko)) : ko \in Perms(DOMAIN mm)}

\* KeySet
KeySet(mm) ==
    {Fill(MakeSlice(Cardinality(DOMAIN mm)), ko) : ko \in Perms(DOMAIN mm)}

\* Values
Values(mm) ==
    LET values == MakeSlice(Size(mm)) IN
    {Fill(values, [i \in 1..Len(it) |-> it[i].Value]) :
        it \in RangeOver(mm, DOMAIN mm)}

\* Entries
Entries(mm) ==
    LET entries == MakeSlice(Size(mm)) IN
    {Fill(entries, it) : it \in RangeOver(mm, DOMAIN mm)}

\* ---- the calls ----

Call(name, key, value, values) ==
    [name |-> name, key |-> key, value |-> value, values |-> values]

Init ==
    /\ m = New
    /\ op = Call("New", Zero, Zero, <<>>)
    /\ ret = {}
    /\ pre = EmptyMap

\* a method without results that leaves next in m.m
Write(c, next) ==
    /\ m' = next
    /\ op' = c
    /\ ret' = {}
    /\ pre' = m

\* a method that only reads m.m and returns one of results
Read(c, results) ==
    /\ ret' = results
    /\ op' = c
    /\ pre' = m
    /\ UNCHANGED m

CallPut == \E k \in Key, v \in Value : Write(Call("Put", k, v, <<>>), Put(m, k, v))

CallPutAll ==
    \E k \in Key, vs \in Slices : Write(Call("PutAll", k, Zero, vs), PutAll(m, k, vs))

CallRemove ==
    \E k \in Key, v \in Value : Write(Call("Remove", k, v, <<>>), Remove(m, k, v))

CallRemoveAll == \E k \in Key : Write(Call("RemoveAll", k, Zero, <<>>), RemoveAll(m, k))

CallClear == Write(Call("Clear", Zero, Zero, <<>>), Clear(m))

CallGet == \E k \in Key : Read(Call("Get", k, Zero, <<>>), Get(m, k))

CallKeys == Read(Call("Keys", Zero, Zero, <<>>), Keys(m))

CallKeySet == Read(Call("KeySet", Zero, Zero, <<>>), KeySet(m))

CallValues == Read(Call("Values", Zero, Zero, <<>>), Values(m))

CallEntries == Read(Call("Entries", Zero, Zero, <<>>), Entries(m))

Next ==
    \/ CallPut
    \/ CallPutAll
    \/ CallRemove
    \/ CallRemoveAll
    \/ CallClear
    \/ CallGet
    \/ CallKeys
    \/ CallKeySet
    \/ CallValues
    \/ CallEntries

Spec == Init /\ [][Next]_vars

TypeOK == /\ DOMAIN m \subseteq Key
          /\ \A k \in DOMAIN m : m[k] \subseteq Value

\* ---- vocabulary of the properties ----

\* the stored (key, value) pairs, as Contains reports them
StoredPairs(mm) == {p \in Key \X Value : Contains(mm, p[1], p[2])}

\* the values Contains reports under key
ValuesOf(mm, key) == {v \in Value : Contains(mm, key, v)}

Elems(seq) == {seq[i] : i \in DOMAIN seq}

Count(seq, x) == Cardinality({i \in DOMAIN seq : seq[i] = x})

NoRepeats(seq) == \A i, j \in DOMAIN seq : i # j => seq[i] # seq[j]

Called(name) == op.name = name

\* a step in which name2(key, value) is called right after name1(key, value)
Follows(name2, name1) ==
    /\ op.name = name1 /\ op'.name = name2
    /\ op'.key = op.key /\ op'.value = op.value

\* C1: after any sequence of Put, PutAll, Remove, RemoveAll and Clear, every
\* key stored in m.m has a non-empty value set: no key that ContainsKey
\* reports, and no key of any result of KeySet, maps to zero values.
C1_NoEmptyValueSet ==
    /\ \A k \in DOMAIN m : m[k] # {}
    /\ \A k \in Key : ContainsKey(m, k) => ValuesOf(m, k) # {}
    /\ \A ks \in KeySet(m) : \A i \in DOMAIN ks : ValuesOf(m, ks[i]) # {}
    /\ Called("KeySet") =>
          \A ks \in ret : \A i \in DOMAIN ks : ValuesOf(m, ks[i]) # {}

\* Remove has taken the last value of a key while another key stays stored
C1_Witness ==
    /\ Called("Remove")
    /\ Lookup(pre, op.key).set = {op.value}
    /\ DOMAIN m # {}

\* C2: after Put(k, v), Contains(k, v) is true and Size() is unchanged if the
\* pair was already stored and larger by exactly 1 otherwise; a second
\* Put(k, v) directly after a first leaves Size() and Contains(k, v) unchanged.
C2_PutAddsOnce ==
    [][/\ op'.name = "Put" =>
            /\ Contains(m', op'.key, op'.value)
            /\ Size(m') = Size(m) + (IF Contains(m, op'.key, op'.value) THEN 0 ELSE 1)
       /\ Follows("Put", "Put") =>
            /\ Size(m') = Size(m)
            /\ Contains(m', op'.key, op'.value) = Contains(m, op'.key, op'.value)
            /\ Contains(m', op'.key, op'.value)]_vars

\* Put(k, v) of a pair that was stored already, next to another pair
C2_Witness ==
    /\ Called("Put")
    /\ Contains(pre, op.key, op.value)
    /\ Size(m) = Size(pre)
    /\ Size(m) >= 2

\* C3 as stated: after Put(k, v) followed by Remove(k, v), ContainsKey(k) has
\* the value it had before the Put and Contains(k, v) is false.
C3_InverseLawAsStated ==
    [][Follows("Remove", "Put")
       => /\ ContainsKey(m', op.key) = ContainsKey(pre, op.key)
          /\ ~Contains(m', op.key, op.value)]_vars

\* C3 amended: after Put(k, v) followed by Remove(k, v), Contains(k, v) is
\* false and ContainsKey(k) is true exactly when k had a value other than v
\* before the Put; that is the value ContainsKey(k) had before the Put
\* whenever the pair (k, v) was not stored before the Put.
C3_InverseLaw ==
    [][Follows("Remove", "Put")
       => /\ ~Contains(m', op.key, op.value)
          /\ ContainsKey(m', op.key) = (ValuesOf(pre, op.key) \ {op.value} # {})
          /\ ~Contains(pre, op.key, op.value)
                => ContainsKey(m', op.key) = ContainsKey(pre, op.key)]_vars

\* Remove(k, v) has removed a stored pair and k keeps another value
C3_Witness ==
    /\ Called("Remove")
    /\ Contains(pre, op.key, op.value)
    /\ ContainsKey(m, op.key)

\* C4: in every reachable state Size() is the length of every result of
\* Entries(), Keys() and Values(); Entries holds each stored pair once, Keys
\* holds a key once per value under it, Values holds a value once per key it
\* is stored under.
C4_FlatViews ==
    /\ Size(m) = Cardinality(StoredPairs(m))
    /\ Called("Entries") =>
          /\ ret # {}
          /\ \A es \in ret :
                /\ Len(es) = Size(m)
                /\ \A p \in Key \X Value :
                      Count(es, [Key |-> p[1], Value |-> p[2]])
                          = (IF p \in StoredPairs(m) THEN 1 ELSE 0)
    /\ Called("Keys") =>
          /\ ret # {}
          /\ \A ks \in ret :
                /\ Len(ks) = Size(m)
                /\ \A k \in Key : Count(ks, k) = Cardinality(ValuesOf(m, k))
    /\ Called("Values") =>
          /\ ret # {}
          /\ \A vs \in ret :
                /\ Len(vs) = Size(m)
                /\ \A v \in Value :
                      Count(vs, v) = Cardinality({k \in Key : Contains(m, k, v)})

\* Keys() has returned a key twice, with another key stored as well
C4_Witness ==
    /\ Called("Keys")
    /\ \E ks \in ret :
          /\ \E k \in Key : Count(ks, k) = 2
          /\ Cardinality(Elems(ks)) = 2

\* C5: Get(k) returns found = true exactly when k has at least one stored
\* value, and a sequence without repeated elements whose elements are exactly
\* the v with Contains(k, v); for an absent k it returns found = false and the
\* empty sequence; the call leaves the multimap as it was.
C5_Get ==
    Called("Get") =>
        /\ ret # {}
        /\ \A r \in ret :
              /\ r.found = (ValuesOf(m, op.key) # {})
              /\ NoRepeats(r.values)
              /\ Elems(r.values) = ValuesOf(m, op.key)
              /\ ~ContainsKey(m, op.key) => r.found = FALSE /\ r.values = <<>>
        /\ m = pre

\* Get(k) has found two values under k
C5_Witness ==
    /\ Called("Get")
    /\ \E r \in ret : r.found /\ Len(r.values) = 2

\* C6: after RemoveAll(k), ContainsKey(k) is false and Get(k) returns
\* found = false with the empty sequence, whether or not k was present.
C6_RemoveAll ==
    [][/\ op'.name = "RemoveAll" =>
            /\ ~ContainsKey(m', op'.key)
            /\ Get(m', op'.key) = {[values |-> <<>>, found |-> FALSE]}
       /\ (op.name = "RemoveAll" /\ op'.name = "Get" /\ op'.key = op.key) =>
            ret' = {[values |-> <<>>, found |-> FALSE]}]_vars

\* RemoveAll(k) has dropped a key that had values, another key staying
C6_Witness ==
    /\ Called("RemoveAll")
    /\ ContainsKey(pre, op.key)
    /\ DOMAIN m # {}

\* C7: Remove(k, v) of a pair that is not stored (k absent, or k present
\* without v) is a no-op: stored pairs, key set and Size() are unchanged and
\* no key is deleted.
C7_RemoveAbsent ==
    (Called("Remove") /\ ~Contains(pre, op.key, op.value)) =>
        /\ StoredPairs(m) = StoredPairs(pre)
        /\ DOMAIN m = DOMAIN pre
        /\ \A ks \in KeySet(pre) : ks \in KeySet(m)
        /\ Size(m) = Size(pre)
        /\ m = pre

\* Remove(k, v) where k is stored without v
C7_Witness ==
    /\ Called("Remove")
    /\ ContainsKey(pre, op.key)
    /\ ~Contains(pre, op.key, op.value)

\* C8: PutAll(k, values) leaves the same state for every permutation of
\* values and every sequence with the same elements: the value set of k is
\* the previous set united with the elements of values, so repeated elements
\* collapse; PutAll(k, [1,1,2]) on an empty map gives Size() = 2.
C8_PutAllSetSemantics ==
    Called("PutAll") =>
        /\ ValuesOf(m, op.key) = ValuesOf(pre, op.key) \cup Elems(op.values)
        /\ \A ws \in Slices :
              Elems(ws) = Elems(op.values) => PutAll(pre, op.key, ws) = m
        /\ (pre = EmptyMap /\ op.values = Scenario) => Size(m) = 2

\* PutAll(k, [1,1,2]) on the empty multimap
C8_Witness ==
    /\ Called("PutAll")
    /\ pre = EmptyMap
    /\ op.values = Scenario
    /\ Size(m) = 2

\* C9: after Clear(), Empty() is true, Size() is 0 and KeySet() is empty; in
\* every reachable state Empty() is true exactly when Size() = 0, which is
\* exactly when no key is stored.
C9_ClearAndEmpty ==
    /\ Called("Clear") =>
          /\ Empty(m)
          /\ Size(m) = 0
          /\ KeySet(m) = {<<>>}
    /\ (Called("KeySet") /\ Size(m) = 0) => ret = {<<>>}
    /\ Empty(m) = (Size(m) = 0)
    /\ (Size(m) = 0) = (\A k \in Key : ~ContainsKey(m, k))
    /\ (Size(m) = 0) = (KeySet(m) = {<<>>})

\* Clear() on a multimap that held two keys
C9_Witness ==
    /\ Called("Clear")
    /\ Cardinality(DOMAIN pre) = 2
    /\ Empty(m)

\* C10: Put(k, v), PutAll(k, vs), Remove(k, v) and RemoveAll(k) leave the
\* value set of every other key unchanged; Put(k, v) and Remove(k, v) leave
\* the membership of every other value under k unchanged; Remove(k, v) of a
\* stored pair lowers Size() by exactly 1 and RemoveAll(k) lowers it by the
\* number of values k had.
C10_Frame ==
    /\ op.name \in {"Put", "PutAll", "Remove", "RemoveAll"} =>
          \A k \in Key \ {op.key} :
              /\ ValuesOf(m, k) = ValuesOf(pre, k)
              /\ ContainsKey(m, k) = ContainsKey(pre, k)
    /\ op.name \in {"Put", "Remove"} =>
          \A v \in Value \ {op.value} :
              Contains(m, op.key, v) = Contains(pre, op.key, v)
    /\ (Called("Remove") /\ Contains(pre, op.key, op.value)) =>
          Size(m) = Size(pre) - 1
    /\ Called("RemoveAll") =>
          Size(m) = Size(pre) - Cardinality(ValuesOf(pre, op.key))

\* RemoveAll(k) has dropped two values of k and left another key in place
C10_Witness ==
    /\ Called("RemoveAll")
    /\ Cardinality(ValuesOf(pre, op.key)) = 2
    /\ Size(m) >= 1
====
